---- MODULE Spec2Model ----
(***************************************************************************)
(* Model of the multi-agent QA flow of IKMS-STEMLink:                      *)
(*   - the plan parser of agents.py (_parse_plan_and_subquestions),        *)
(*   - the four stage nodes of agents.py,                                  *)
(*   - the graph, the checkpointer and run_qa_flow of graph.py.            *)
(* Text is a sequence of symbols; the two section markers are symbols of   *)
(* their own, every other symbol is one character.  An optional value is   *)
(* None (the empty tuple) or Some(v) (the one-element tuple).              *)
(***************************************************************************)
EXTENDS Integers, Sequences, FiniteSets, TLC

VARIABLES
    parse,          \* the plan parser, run one loop iteration at a time
    checkpointer,   \* graph.py _checkpointer: None or Some(instance)
    graph_cache,    \* the lru_cache of get_qa_graph: None or Some(graph)
    stores,         \* stores[i]: thread_id -> checkpoint of InMemorySaver i
    uuids,          \* how many identifiers uuid.uuid4() has produced
    calls,          \* how many calls of run_qa_flow have started
    run,            \* run[t]: the call of run_qa_flow thread t is in; its
                    \* field alone records that no other call on the same
                    \* thread_id has overlapped it
    stage           \* planner_node and retrieval_node of one run, with what
                    \* each sends to its capability

vars == <<parse, checkpointer, graph_cache, stores, uuids, calls, run, stage>>
pipeline_vars == <<checkpointer, graph_cache, stores, uuids, calls, run>>

(***************************************************************************)
(* Bounds                                                                  *)
(***************************************************************************)
MaxContentLen == 5
MaxCalls == 2
MaxHistory == 6

(***************************************************************************)
(* Optional values                                                         *)
(***************************************************************************)
None == <<>>
Some(v) == <<v>>

(***************************************************************************)
(* Text                                                                    *)
(***************************************************************************)
PLAN == "plan:"
SUBQ == "sub_questions:"
NL == "\n"
SP == " "
DASH == "-"
QUOTE == "\""
Digits == {"1"}
Symbols == {PLAN, SUBQ, "1", DASH, SP, QUOTE, "x", NL}
Whitespace == {SP, NL}

Contents == UNION {[1..n -> Symbols] : n \in 0..MaxContentLen}

\* str.split("\n")
RECURSIVE Split(_)
Split(s) ==
    IF \A i \in 1..Len(s) : s[i] # NL
    THEN <<s>>
    ELSE LET i == CHOOSE k \in 1..Len(s) :
                     s[k] = NL /\ \A j \in 1..(k-1) : s[j] # NL
         IN  <<SubSeq(s, 1, i-1)>> \o Split(SubSeq(s, i+1, Len(s)))

\* str.lstrip(chars), str.rstrip(chars), str.strip(chars)
RECURSIVE LStrip(_, _)
LStrip(s, chars) ==
    IF s # <<>> /\ Head(s) \in chars THEN LStrip(Tail(s), chars) ELSE s

RECURSIVE RStrip(_, _)
RStrip(s, chars) ==
    IF s # <<>> /\ s[Len(s)] \in chars
    THEN RStrip(SubSeq(s, 1, Len(s)-1), chars)
    ELSE s

Strip(s, chars) == RStrip(LStrip(s, chars), chars)

\* str.startswith(sym) for a marker or a one-character prefix
StartsWith(s, sym) == s # <<>> /\ s[1] = sym

\* "\n".join(lines)
RECURSIVE Join(_)
Join(ls) ==
    IF ls = <<>> THEN <<>>
    ELSE IF Len(ls) = 1 THEN ls[1]
    ELSE ls[1] \o <<NL>> \o Join(Tail(ls))

(***************************************************************************)
(* _parse_plan_and_subquestions                                            *)
(***************************************************************************)
\* the loop's variables before the first line
ParseLoopInit ==
    [in_plan |-> FALSE, in_subq |-> FALSE,
     plan_lines |-> <<>>, sub_questions |-> <<>>]

\* seeded fault: a header is a line equal to the marker
IsHeaderExact(line, marker) == line = <<marker>>

\* the test that makes a line a section header: line.startswith(marker)
IsHeader(line, marker) == StartsWith(line, marker)

\* what is kept of a sub-question line: line.strip("- ").strip('"')
SubqText(line) == Strip(Strip(line, {DASH, SP}), {QUOTE})

\* one iteration of the loop over the lines
ParseLine(ps, raw) ==
    LET line == Strip(raw, Whitespace) IN
    IF IsHeader(line, PLAN)
    THEN [ps EXCEPT !.in_plan = TRUE, !.in_subq = FALSE]
    ELSE IF IsHeader(line, SUBQ)
    THEN [ps EXCEPT !.in_plan = FALSE, !.in_subq = TRUE]
    ELSE IF ps.in_plan /\ line # <<>> /\ line[1] \in Digits
    THEN [ps EXCEPT !.plan_lines = Append(@, line)]
    ELSE IF ps.in_subq /\ StartsWith(line, DASH)
    THEN [ps EXCEPT !.sub_questions = Append(@, SubqText(line))]
    ELSE ps

\* seeded fault: the results without the "if ... else None"
ParseResultNoNull(ps) ==
    [plan |-> Some(Join(ps.plan_lines)), sub_questions |-> Some(ps.sub_questions)]

\* the two results, from what the loop collected
ParseResult(ps) ==
    [plan |-> IF ps.plan_lines # <<>> THEN Some(Join(ps.plan_lines)) ELSE None,
     sub_questions |-> IF ps.sub_questions # <<>>
                       THEN Some(ps.sub_questions) ELSE None]

RECURSIVE ParseLoop(_, _)
ParseLoop(ps, lines) ==
    IF lines = <<>> THEN ps
    ELSE ParseLoop(ParseLine(ps, Head(lines)), Tail(lines))

parse_plan_and_subquestions(content) ==
    IF content = <<>>
    THEN [plan |-> None, sub_questions |-> None]
    ELSE ParseResult(ParseLoop(ParseLoopInit, Split(content)))

(***************************************************************************)
(* Messages and capability responses                                       *)
(***************************************************************************)
\* an entry of QAState.messages
Msg(role, content) == [role |-> role, content |-> content]

\* a message of a capability's response: an AIMessage or a ToolMessage
AIMessage(content) == [type |-> "ai", content |-> content]
ToolMessage(content) == [type |-> "tool", content |-> content]

Questions == {<<"q1">>, <<"q2">>}

\* what the four capabilities answer: each question brings its own responses,
\* the first with every part present, the second with every part missing
PlannerResponses(question) ==
    IF question = <<"q1">>
    THEN { <<AIMessage(<<PLAN, NL, "1", NL, SUBQ, NL, DASH, SP, "x">>)>> }
    ELSE { <<AIMessage(<<"x">>)>> }
RetrievalResponses(question) ==
    IF question = <<"q1">>
    THEN { <<ToolMessage(<<"c1">>), ToolMessage(<<"c2">>), AIMessage(<<"x">>)>> }
    ELSE { <<AIMessage(<<"x">>)>> }
SummarizationResponses(question) ==
    IF question = <<"q1">> THEN { <<AIMessage(<<"d1">>)>> } ELSE { <<>> }
VerificationResponses(question) ==
    IF question = <<"q1">> THEN { <<AIMessage(<<"a1">>)>> } ELSE { <<>> }

\* _extract_last_ai_content
RECURSIVE extract_last_ai_content(_)
extract_last_ai_content(messages) ==
    IF messages = <<>> THEN <<>>
    ELSE IF messages[Len(messages)].type = "ai"
    THEN messages[Len(messages)].content
    ELSE extract_last_ai_content(SubSeq(messages, 1, Len(messages) - 1))

\* the reversed scan of retrieval_node for the last ToolMessage
RECURSIVE LastToolContent(_)
LastToolContent(messages) ==
    IF messages = <<>> THEN <<>>
    ELSE IF messages[Len(messages)].type = "tool"
    THEN messages[Len(messages)].content
    ELSE LastToolContent(SubSeq(messages, 1, Len(messages) - 1))

(***************************************************************************)
(* planner_node: the messages sent to the planner                          *)
(***************************************************************************)
HumanMessage(content) == [type |-> "human", content |-> content]

\* s[-n:]
LastN(s, n) == IF Len(s) > n THEN SubSeq(s, Len(s) - n + 1, Len(s)) ELSE s

\* s[:n]
FirstN(s, n) == IF Len(s) > n THEN SubSeq(s, 1, n) ELSE s

\* the loop over the window: a user entry becomes a HumanMessage, an
\* assistant entry an AIMessage, an entry of another role is passed over
RECURSIVE RoleMessages(_)
RoleMessages(window) ==
    IF window = <<>> THEN <<>>
    ELSE (IF Head(window).role = "user"
          THEN <<HumanMessage(Head(window).content)>>
          ELSE IF Head(window).role = "assistant"
          THEN <<AIMessage(Head(window).content)>>
          ELSE <<>>) \o RoleMessages(Tail(window))

\* seeded fault: the whole history is sent
agent_messages_all(state) ==
    RoleMessages(state.messages) \o <<HumanMessage(state.question)>>

\* agent_messages as planner_agent.invoke gets it
agent_messages(state) ==
    RoleMessages(LastN(state.messages, 6)) \o <<HumanMessage(state.question)>>

(***************************************************************************)
(* retrieval_node: the query sent to the retrieval agent                   *)
(***************************************************************************)
\* the literal parts of the query, each a symbol of its own
NONE == "None"
QUESTION_HEAD == "Question: "
PLAN_HEAD == "Plan:"
SUBQ_HEAD == "Sub-Questions:"
NOTE_OPEN == "[Previous answer excerpt: "
NOTE_CLOSE == "...]"

\* an optional text in an f-string: str(None) is "None"
Format(opt) == IF opt = None THEN <<NONE>> ELSE opt[1]

\* seeded fault: no sub-questions are rendered as the empty text
formatted_subqs_blank(sub_questions) ==
    IF sub_questions # None /\ sub_questions[1] # <<>>
    THEN Join([k \in 1..Len(sub_questions[1]) |-> <<DASH, SP>> \o sub_questions[1][k]])
    ELSE <<>>

\* '\n'.join(f"- {sq}" for sq in sub_questions) if sub_questions else "None"
formatted_subqs(sub_questions) ==
    IF sub_questions # None /\ sub_questions[1] # <<>>
    THEN Join([k \in 1..Len(sub_questions[1]) |-> <<DASH, SP>> \o sub_questions[1][k]])
    ELSE <<NONE>>

\* next((msg["content"] for msg in reversed(messages_history)
\*       if msg["role"] == "assistant"), None)
RECURSIVE last_answer(_)
last_answer(messages_history) ==
    IF messages_history = <<>> THEN None
    ELSE IF messages_history[Len(messages_history)].role = "assistant"
    THEN Some(messages_history[Len(messages_history)].content)
    ELSE last_answer(SubSeq(messages_history, 1, Len(messages_history) - 1))

\* seeded fault: the most recent assistant entry that is not empty is taken
RECURSIVE last_nonempty_answer(_)
last_nonempty_answer(messages_history) ==
    IF messages_history = <<>> THEN None
    ELSE IF /\ messages_history[Len(messages_history)].role = "assistant"
            /\ messages_history[Len(messages_history)].content # <<>>
    THEN Some(messages_history[Len(messages_history)].content)
    ELSE last_nonempty_answer(SubSeq(messages_history, 1, Len(messages_history) - 1))

context_note_nonempty(messages_history) ==
    IF Len(messages_history) >= 2
    THEN LET answer == last_nonempty_answer(messages_history)
         IN  IF answer # None /\ answer[1] # <<>>
             THEN <<NL, NOTE_OPEN>> \o FirstN(answer[1], 200) \o <<NOTE_CLOSE, NL>>
             ELSE <<>>
    ELSE <<>>

context_note(messages_history) ==
    IF Len(messages_history) >= 2
    THEN LET answer == last_answer(messages_history)
         IN  IF answer # None /\ answer[1] # <<>>
             THEN <<NL, NOTE_OPEN>> \o FirstN(answer[1], 200) \o <<NOTE_CLOSE, NL>>
             ELSE <<>>
    ELSE <<>>

user_content(state) ==
    context_note(state.messages)
      \o <<QUESTION_HEAD>> \o state.question
      \o <<NL, NL, PLAN_HEAD, NL>> \o Format(state.plan)
      \o <<NL, NL, SUBQ_HEAD, NL>> \o formatted_subqs(state.sub_questions)

(***************************************************************************)
(* The stage nodes: the delta each returns                                 *)
(***************************************************************************)
planner_node(state, result) ==
    LET content == extract_last_ai_content(result)
        parsed == parse_plan_and_subquestions(content)
    IN  [plan |-> parsed.plan, sub_questions |-> parsed.sub_questions]

\* seeded fault: context starts as None, not as ""
retrieval_node_null(state, result) ==
    [context |-> IF \E i \in 1..Len(result) : result[i].type = "tool"
                 THEN Some(LastToolContent(result)) ELSE None]

\* seeded fault: the scan is not reversed, the first ToolMessage is taken
RECURSIVE FirstToolContent(_)
FirstToolContent(messages) ==
    IF messages = <<>> THEN <<>>
    ELSE IF Head(messages).type = "tool"
    THEN Head(messages).content
    ELSE FirstToolContent(Tail(messages))

retrieval_node_first_tool(state, result) ==
    [context |-> Some(FirstToolContent(result))]

retrieval_node(state, result) ==
    [context |-> Some(LastToolContent(result))]

\* seeded fault: the draft is added to messages as well
summarization_node_messages(state, result) ==
    [draft_answer |-> Some(extract_last_ai_content(result)),
     messages |-> <<Msg("assistant", extract_last_ai_content(result))>>]

summarization_node(state, result) ==
    [draft_answer |-> Some(extract_last_ai_content(result))]

\* seeded fault: the answer is not added to messages
verification_node_no_message(state, result) ==
    [answer |-> Some(extract_last_ai_content(result))]

\* seeded fault: the answer is added to messages as a user entry
verification_node_user_role(state, result) ==
    [answer |-> Some(extract_last_ai_content(result)),
     messages |-> <<Msg("user", extract_last_ai_content(result))>>]

verification_node(state, result) ==
    LET answer == extract_last_ai_content(result)
    IN  [answer |-> Some(answer),
         messages |-> <<Msg("assistant", answer)>>]

(***************************************************************************)
(* The graph                                                               *)
(***************************************************************************)
START == "__start__"
END == "__end__"
Nodes == {"planner", "retrieval", "summarization", "verification"}

\* seeded fault: the edge out of retrieval skips summarization
EdgesSkip ==
    [n \in Nodes \cup {START} |->
        CASE n = START -> "planner"
          [] n = "planner" -> "retrieval"
          [] n = "retrieval" -> "verification"
          [] n = "summarization" -> "verification"
          [] n = "verification" -> END]

\* create_qa_graph: the edges of the compiled graph
Edges ==
    [n \in Nodes \cup {START} |->
        CASE n = START -> "planner"
          [] n = "planner" -> "retrieval"
          [] n = "retrieval" -> "summarization"
          [] n = "summarization" -> "verification"
          [] n = "verification" -> END]

NextNode(n) == Edges[n]

\* QAState channels: a node's delta merged into the running state; messages is
\* appended to, every other field is overwritten
MergeDelta(state, delta) ==
    [f \in DOMAIN state |->
        IF f \notin DOMAIN delta THEN state[f]
        ELSE IF f = "messages" THEN state[f] \o delta[f]
        ELSE delta[f]]

\* graph.invoke(initial_state, config): the state the first node starts from
ApplyInput(initial_state) == initial_state

\* InMemorySaver: get and put by thread_id
Lookup(store, thread_id) ==
    IF thread_id \in DOMAIN store THEN Some(store[thread_id]) ELSE None

\* seeded fault: one checkpoint for all thread_ids
PutShared(store, thread_id, state) ==
    [k \in DOMAIN store \cup {thread_id} |-> state]

Put(store, thread_id, state) ==
    [k \in DOMAIN store \cup {thread_id} |->
        IF k = thread_id THEN state ELSE store[k]]

(***************************************************************************)
(* run_qa_flow                                                             *)
(***************************************************************************)
Threads == {"t1", "t2"}
ThreadOrder == [t \in Threads |-> IF t = "t1" THEN 1 ELSE 2]

\* uuid.uuid4(): the n-th identifier produced, unlike all those before it
Uuid(n) == [k \in 1..n |-> "u"]

\* the session identifiers a caller can supply: none, the empty string, a
\* name of its own, or an identifier that an earlier call returned
SessionIds == {None, Some(<<>>), Some(<<"s1">>)} \cup {Some(Uuid(n)) : n \in 1..uuids}

\* thread_id = session_id if session_id else str(uuid.uuid4())
Truthy(session_id) == session_id # None /\ session_id[1] # <<>>

\* seeded fault: the session identifier supplied is ignored
ThreadIdFresh(session_id, fresh) == fresh

ThreadId(session_id, fresh) ==
    IF Truthy(session_id) THEN session_id[1] ELSE fresh

\* seeded fault: the stored history is not taken over
InitialMessagesFresh(existing, question) == <<Msg("user", question)>>

\* the messages of the initial state
InitialMessages(existing, question) ==
    IF existing # None /\ existing[1].messages # <<>>
    THEN existing[1].messages \o <<Msg("user", question)>>
    ELSE <<Msg("user", question)>>

\* seeded fault: the fields of the stored state are kept
InitialStateKeep(existing, question) ==
    IF existing # None
    THEN [existing[1] EXCEPT !.question = question,
                             !.messages = InitialMessages(existing, question)]
    ELSE [plan |-> None, sub_questions |-> None, question |-> question,
          context |-> None, draft_answer |-> None, answer |-> None,
          messages |-> InitialMessages(existing, question)]

InitialState(existing, question) ==
    [plan |-> None, sub_questions |-> None, question |-> question,
     context |-> None, draft_answer |-> None, answer |-> None,
     messages |-> InitialMessages(existing, question)]

\* what the caller gets: the final state with the session identifier, or the
\* response of the catch-all exception handler
FinalResult(final_state, thread_id) ==
    [kind |-> "ok", state |-> final_state, session_id |-> thread_id]

InternalError == [kind |-> "error", detail |-> "Internal server error"]

\* seeded fault: the exception is swallowed and the state so far is returned
PartialResult(state, thread_id) == FinalResult(state, thread_id)

\* a node raised: nothing catches it in graph.invoke or run_qa_flow, and the
\* exception handler of the application answers
RaisedResult(state, thread_id) == InternalError

RunIdle ==
    [pc |-> "idle", question |-> <<>>, session_id |-> None, thread_id |-> <<>>,
     graph |-> 0, existing |-> None, state |-> None, trace |-> <<>>,
     alone |-> TRUE, result |-> None]

\* planner_node and retrieval_node before a run has reached them
StageIdle ==
    [pc |-> "idle", state |-> None, agent_messages |-> <<>>,
     user_content |-> <<>>, result |-> <<>>]

PipelineInit ==
    /\ checkpointer = None
    /\ graph_cache = None
    /\ stores = <<>>
    /\ uuids = 0
    /\ calls = 0
    /\ run = [t \in Threads |-> RunIdle]

(***************************************************************************)
(* The parser, one loop iteration at a time                                *)
(***************************************************************************)
ParseIdle ==
    [pc |-> "idle", content |-> <<>>, lines |-> <<>>, i |-> 0,
     ps |-> ParseLoopInit, result |-> None]

ParserInit ==
    /\ \E c \in Contents : parse = [ParseIdle EXCEPT !.pc = "start", !.content = c]
    /\ PipelineInit
    /\ stage = StageIdle

ParseStart ==
    /\ parse.pc = "start"
    /\ IF parse.content = <<>>
       THEN parse' = [parse EXCEPT !.pc = "done",
                         !.result = Some([plan |-> None, sub_questions |-> None])]
       ELSE parse' = [parse EXCEPT !.pc = "loop",
                         !.lines = Split(parse.content), !.i = 1]

ParseStep ==
    /\ parse.pc = "loop"
    /\ parse.i <= Len(parse.lines)
    /\ parse' = [parse EXCEPT !.ps = ParseLine(parse.ps, parse.lines[parse.i]),
                              !.i = parse.i + 1]

ParseReturn ==
    /\ parse.pc = "loop"
    /\ parse.i > Len(parse.lines)
    /\ parse' = [parse EXCEPT !.pc = "done", !.result = Some(ParseResult(parse.ps))]

ParserNext ==
    \/ ParseStart /\ UNCHANGED <<pipeline_vars, stage>>
    \/ ParseStep /\ UNCHANGED <<pipeline_vars, stage>>
    \/ ParseReturn /\ UNCHANGED <<pipeline_vars, stage>>

ParserSpec == ParserInit /\ [][ParserNext]_vars

(***************************************************************************)
(* planner_node and retrieval_node of one run, from the initial state that *)
(* run_qa_flow builds on a stored history                                  *)
(***************************************************************************)
\* an answer one character longer than the excerpt that the query carries
LongAnswer ==
    [k \in 1..201 |-> IF k = 1 THEN "b" ELSE IF k = 201 THEN "c" ELSE "a"]

Answers == {<<>>, <<"a1">>, LongAnswer}

HistoryEntries ==
    {Msg("user", q) : q \in Questions} \cup {Msg("assistant", a) : a \in Answers}

\* the histories a checkpoint can hold: an assistant entry is the answer to
\* the user entry before it
StoredHistories ==
    {h \in UNION {[1..n -> HistoryEntries] : n \in 1..MaxHistory} :
        \A k \in 1..Len(h) :
            h[k].role = "assistant" => (k > 1 /\ h[k-1].role = "user")}

\* what the planner answers: a plan with two sub-questions, no section at
\* all, a sub-question section with one empty entry
StagePlannerResponses ==
    { <<AIMessage(<<PLAN, NL, "1", NL, SUBQ, NL, DASH, SP, "x", NL, DASH, "1">>)>>,
      <<AIMessage(<<"x">>)>>,
      <<AIMessage(<<SUBQ, NL, DASH>>)>> }

\* what the retrieval agent answers: tool results and its own messages
StageRetrievalResponses ==
    { <<>>,
      <<AIMessage(<<"x">>)>>,
      <<ToolMessage(<<"c1">>)>>,
      <<ToolMessage(<<"c1">>), AIMessage(<<"x">>)>>,
      <<ToolMessage(<<"c1">>), ToolMessage(<<"c2">>)>>,
      <<ToolMessage(<<"c1">>), AIMessage(<<"x">>), ToolMessage(<<>>), AIMessage(<<"x">>)>>,
      <<ToolMessage(<<"c2">>), ToolMessage(<<"c1">>), AIMessage(<<"x">>), AIMessage(<<>>)>> }

StageInit ==
    /\ parse = ParseIdle
    /\ PipelineInit
    /\ \E question \in Questions,
          existing \in {None} \cup {Some([messages |-> h]) : h \in StoredHistories} :
         stage = [StageIdle EXCEPT
                    !.pc = NextNode(START),
                    !.state = Some(ApplyInput(InitialState(existing, question)))]

StagePlanner ==
    /\ stage.pc = "planner"
    /\ \E result \in StagePlannerResponses :
         stage' = [stage EXCEPT
                     !.pc = NextNode("planner"),
                     !.agent_messages = agent_messages(stage.state[1]),
                     !.result = result,
                     !.state = Some(MergeDelta(stage.state[1],
                                       planner_node(stage.state[1], result)))]
    /\ UNCHANGED <<parse, pipeline_vars>>

StageRetrieval ==
    /\ stage.pc = "retrieval"
    /\ \E result \in StageRetrievalResponses :
         stage' = [stage EXCEPT
                     !.pc = NextNode("retrieval"),
                     !.user_content = user_content(stage.state[1]),
                     !.result = result,
                     !.state = Some(MergeDelta(stage.state[1],
                                       retrieval_node(stage.state[1], result)))]
    /\ UNCHANGED <<parse, pipeline_vars>>

StageNext == StagePlanner \/ StageRetrieval

StageSpec == StageInit /\ [][StageNext]_vars

(***************************************************************************)
(* The steps of a call of run_qa_flow by thread t                          *)
(***************************************************************************)
EmptyStore == [k \in {} |-> None]

\* the checkpoint of thread_id in the saver of t's graph, replaced by state
Checkpoint(t, state) ==
    [stores EXCEPT ![run[t].graph] = Put(@, run[t].thread_id, state)]

\* a thread is free before its first call and once its last call has returned
\* or raised; the threads serve alike: a call is taken by the first free one
Free(t) == run[t].pc \in {"idle", "done", "failed"}

FirstFree(t) ==
    \A u \in Threads : (Free(u) /\ u # t) => ThreadOrder[t] < ThreadOrder[u]

\* run_qa_flow is called: thread_id is computed, and get_qa_graph gives the
\* cached graph or goes on to create_qa_graph
Call(t) ==
    /\ Free(t)
    /\ FirstFree(t)
    /\ calls < MaxCalls
    /\ \E question \in Questions, session_id \in SessionIds :
         LET thread_id == ThreadId(session_id, Uuid(uuids + 1))
             overlap == {u \in Threads \ {t} :
                            ~Free(u) /\ run[u].thread_id = thread_id}
         IN  /\ run' = [u \in Threads |->
                  IF u = t
                  THEN [RunIdle EXCEPT
                          !.pc = IF graph_cache # None
                                 THEN "get_state" ELSE "get_checkpointer",
                          !.graph = IF graph_cache # None THEN graph_cache[1] ELSE 0,
                          !.question = question,
                          !.session_id = session_id,
                          !.thread_id = thread_id,
                          !.alone = (overlap = {})]
                  ELSE IF u \in overlap THEN [run[u] EXCEPT !.alone = FALSE]
                  ELSE run[u]]
             /\ uuids' = IF Truthy(session_id) THEN uuids ELSE uuids + 1
    /\ calls' = calls + 1
    /\ UNCHANGED <<parse, stage, checkpointer, graph_cache, stores>>

\* get_checkpointer: if _checkpointer is None
GetCheckpointer(t) ==
    /\ run[t].pc = "get_checkpointer"
    /\ run' = [run EXCEPT ![t].pc =
         IF checkpointer = None THEN "new_checkpointer" ELSE "return_checkpointer"]
    /\ UNCHANGED <<parse, stage, checkpointer, graph_cache, stores, uuids, calls>>

\* get_checkpointer: _checkpointer = InMemorySaver()
NewCheckpointer(t) ==
    /\ run[t].pc = "new_checkpointer"
    /\ stores' = Append(stores, EmptyStore)
    /\ checkpointer' = Some(Len(stores) + 1)
    /\ run' = [run EXCEPT ![t].pc = "return_checkpointer"]
    /\ UNCHANGED <<parse, stage, graph_cache, uuids, calls>>

\* get_checkpointer: return _checkpointer; the graph is compiled with it
ReturnCheckpointer(t) ==
    /\ run[t].pc = "return_checkpointer"
    /\ run' = [run EXCEPT ![t] = [@ EXCEPT !.pc = "cache_graph",
                                           !.graph = checkpointer[1]]]
    /\ UNCHANGED <<parse, stage, checkpointer, graph_cache, stores, uuids, calls>>

\* lru_cache keeps the first graph that was returned
CacheGraph(t) ==
    /\ run[t].pc = "cache_graph"
    /\ graph_cache' = IF graph_cache = None THEN Some(run[t].graph) ELSE graph_cache
    /\ run' = [run EXCEPT ![t].pc = "get_state"]
    /\ UNCHANGED <<parse, stage, checkpointer, stores, uuids, calls>>

\* existing_state = graph.get_state(config)
GetState(t) ==
    /\ run[t].pc = "get_state"
    /\ run' = [run EXCEPT ![t] = [@ EXCEPT
                 !.pc = "invoke",
                 !.existing = Lookup(stores[run[t].graph], run[t].thread_id)]]
    /\ UNCHANGED <<parse, stage, checkpointer, graph_cache, stores, uuids, calls>>

\* graph.invoke(initial_state, config) starts: the input is checkpointed
Invoke(t) ==
    /\ run[t].pc = "invoke"
    /\ LET state == ApplyInput(InitialState(run[t].existing, run[t].question))
       IN  /\ run' = [run EXCEPT ![t] = [@ EXCEPT !.pc = NextNode(START),
                                                  !.state = Some(state)]]
           /\ stores' = Checkpoint(t, state)
    /\ UNCHANGED <<parse, stage, checkpointer, graph_cache, uuids, calls>>

\* a node has returned delta: it is merged, checkpointed, and the edge is taken;
\* at END graph.invoke returns, final_state["session_id"] = thread_id, return
NodeDone(t, node, delta) ==
    LET state == MergeDelta(run[t].state[1], delta)
    IN  /\ run' = [run EXCEPT ![t] = [@ EXCEPT
                     !.pc = IF NextNode(node) = END THEN "done" ELSE NextNode(node),
                     !.state = Some(state),
                     !.trace = Append(@, node),
                     !.result = IF NextNode(node) = END
                                THEN Some(FinalResult(state, run[t].thread_id))
                                ELSE None]]
        /\ stores' = Checkpoint(t, state)
        /\ UNCHANGED <<parse, stage, checkpointer, graph_cache, uuids, calls>>

Planner(t) ==
    /\ run[t].pc = "planner"
    /\ \E result \in PlannerResponses(run[t].question) :
         NodeDone(t, "planner", planner_node(run[t].state[1], result))

Retrieval(t) ==
    /\ run[t].pc = "retrieval"
    /\ \E result \in RetrievalResponses(run[t].question) :
         NodeDone(t, "retrieval", retrieval_node(run[t].state[1], result))

Summarization(t) ==
    /\ run[t].pc = "summarization"
    /\ \E result \in SummarizationResponses(run[t].question) :
         NodeDone(t, "summarization", summarization_node(run[t].state[1], result))

Verification(t) ==
    /\ run[t].pc = "verification"
    /\ \E result \in VerificationResponses(run[t].question) :
         NodeDone(t, "verification", verification_node(run[t].state[1], result))

\* the capability of the node t is in raises: graph.invoke and run_qa_flow
\* raise, and the exception handler answers
NodeFails(t) ==
    /\ run[t].pc \in Nodes
    /\ run' = [run EXCEPT ![t] = [@ EXCEPT !.pc = "failed",
                                           !.trace = Append(@, run[t].pc),
                                           !.result = Some(RaisedResult(
                                               run[t].state[1], run[t].thread_id))]]
    /\ UNCHANGED <<parse, stage, checkpointer, graph_cache, stores, uuids, calls>>

Init ==
    /\ parse = ParseIdle
    /\ PipelineInit
    /\ stage = StageIdle

Next ==
    \E t \in Threads :
        \/ Call(t)
        \/ GetCheckpointer(t)
        \/ NewCheckpointer(t)
        \/ ReturnCheckpointer(t)
        \/ CacheGraph(t)
        \/ GetState(t)
        \/ Invoke(t)
        \/ Planner(t)
        \/ Retrieval(t)
        \/ Summarization(t)
        \/ Verification(t)
        \/ NodeFails(t)

Spec == Init /\ [][Next]_vars

(***************************************************************************)
(* Properties of run_qa_flow                                               *)
(***************************************************************************)
\* thread t's call returns in this step
Completes(t) == run[t].pc # "done" /\ run'[t].pc = "done"

\* the two entries a completed turn adds
TurnEntries(r) ==
    <<Msg("user", r.question), Msg("assistant", r.state[1].answer[1])>>

\* the history get_state found for the call
FoundHistory(r) == r.existing # None /\ r.existing[1].messages # <<>>

StoredMessages(st, r) == st[r.graph][r.thread_id].messages

\* C1: when a call whose session already held a history returns, the
\* session's messages, stored and returned, are the history that get_state
\* found followed by exactly two entries: the user question, then the
\* assistant answer; the earlier entries keep their positions.
C1_ResumeExtendsHistory ==
    [][\A t \in Threads :
         (Completes(t) /\ FoundHistory(run[t])) =>
            /\ StoredMessages(stores', run'[t])
                 = run[t].existing[1].messages \o TurnEntries(run'[t])
            /\ run'[t].result[1].state.messages = StoredMessages(stores', run'[t])
            /\ run'[t].result[1].state.answer = run'[t].state[1].answer]_vars

\* a call has returned on a session that held a completed turn
C1_Witness ==
    \E t \in Threads :
        /\ run[t].pc = "done"
        /\ FoundHistory(run[t])
        /\ Len(run[t].existing[1].messages) >= 2
        /\ run[t].existing[1].messages[2].role = "assistant"
        /\ Len(run[t].result[1].state.messages)
             = Len(run[t].existing[1].messages) + 2

\* C2: when a call on a fresh session returns (no identifier, or an
\* identifier with no stored state), the messages, stored and returned, are
\* exactly the user question followed by the assistant answer.
C2_FreshSessionTwoEntries ==
    [][\A t \in Threads :
         (Completes(t) /\ run[t].existing = None) =>
            /\ StoredMessages(stores', run'[t]) = TurnEntries(run'[t])
            /\ run'[t].result[1].state.messages = TurnEntries(run'[t])
            /\ Len(run'[t].result[1].state.messages) = 2]_vars

\* a call with an identifier that had no stored state has returned
C2_Witness ==
    \E t \in Threads :
        /\ run[t].pc = "done"
        /\ run[t].session_id = Some(<<"s1">>)
        /\ run[t].existing = None
        /\ Len(run[t].result[1].state.messages) = 2

StageOrder == <<"planner", "retrieval", "summarization", "verification">>

IsPrefix(s, r) == Len(s) <= Len(r) /\ s = SubSeq(r, 1, Len(s))

C4_InputsPresent ==
    \A t \in Threads :
        /\ run[t].pc = "summarization" => run[t].state[1].context # None
        /\ run[t].pc = "verification" => run[t].state[1].draft_answer # None
        /\ (run[t].pc \in Nodes /\ run[t].trace = <<>>) =>
              /\ run[t].state[1].context = None
              /\ run[t].state[1].draft_answer = None

\* a call is about to run Verify on an empty context and an empty draft
C4_Witness ==
    \E t \in Threads :
        /\ run[t].pc = "verification"
        /\ run[t].state[1].context = Some(<<>>)
        /\ run[t].state[1].draft_answer = Some(<<>>)

\* C5: a call whose stage raised has the internal error as its only outcome,
\* with no field of the state in it, and runs no further stage.
C5_FailureAborts ==
    [][\A t \in Threads :
         /\ run'[t].pc = "failed" =>
               /\ run'[t].result = Some(InternalError)
               /\ DOMAIN run'[t].result[1] = {"kind", "detail"}
         /\ run[t].pc = "failed" =>
               \/ run'[t] = run[t]
               \/ run'[t].trace = <<>> /\ run'[t].pc \notin Nodes \cup {"failed"}]_vars

\* a call failed in Retrieve, after Plan had set a plan
C5_Witness ==
    \E t \in Threads :
        /\ run[t].pc = "failed"
        /\ run[t].trace = <<"planner", "retrieval">>
        /\ run[t].state[1].plan # None

\* the identifier a call's state is kept under: the one supplied if it is
\* not empty, the generated one otherwise
KeyOf(r) == IF Truthy(r.session_id) THEN r.session_id[1] ELSE r.thread_id

\* thread t takes a call in this step
Calls(t) == calls' = calls + 1 /\ Free(t) /\ ~Free(t)'

\* C6 as stated: whenever a session identifier is supplied, the call returns
\* that identifier as session_id.
C6_SuppliedIdReturned ==
    \A t \in Threads :
        (run[t].pc = "done" /\ run[t].session_id # None) =>
            run[t].result[1].session_id = run[t].session_id[1]

\* C6, amended: a call given a non-empty session identifier generates none,
\* reads and writes the checkpoint under the identifier given, and returns
\* it; a call given no identifier or the empty one generates an identifier
\* that is not empty and is the identifier of no stored checkpoint and of no
\* other call, and reads, writes and returns that one.
C6_SessionIdentifier ==
    [][\A t \in Threads :
         /\ (Calls(t) /\ Truthy(run'[t].session_id)) =>
               /\ run'[t].thread_id = run'[t].session_id[1]
               /\ uuids' = uuids
         /\ (Calls(t) /\ ~Truthy(run'[t].session_id)) =>
               /\ run'[t].thread_id # <<>>
               /\ uuids' = uuids + 1
               /\ \A i \in DOMAIN stores : run'[t].thread_id \notin DOMAIN stores[i]
               /\ \A u \in Threads \ {t} : run[u].thread_id # run'[t].thread_id
         /\ (run[t].pc = "get_state" /\ run'[t].pc = "invoke") =>
               run'[t].existing = Lookup(stores[run[t].graph], KeyOf(run[t]))
         /\ (run'[t] # run[t] /\ calls' = calls) =>
               \A i \in DOMAIN stores :
                  \A k \in DOMAIN stores'[i] :
                     Lookup(stores'[i], k) # Lookup(stores[i], k) =>
                        i = run[t].graph /\ k = KeyOf(run[t])
         /\ Completes(t) =>
               /\ run'[t].result[1].session_id = KeyOf(run[t])
               /\ Lookup(stores'[run[t].graph], KeyOf(run[t])) = run'[t].state]_vars

\* one call has returned the identifier it was given, another, given none,
\* has returned a generated one
C6_Witness ==
    \E t, u \in Threads :
        /\ run[t].pc = "done" /\ run[u].pc = "done"
        /\ run[t].session_id = Some(<<"s1">>)
        /\ run[t].result[1].session_id = <<"s1">>
        /\ run[u].session_id = None
        /\ run[u].result[1].session_id = Uuid(1)

\* the checkpoint of the session of call r
SessionCheckpoint(st, r) == Lookup(st[r.graph], r.thread_id)

\* C7: after any step of any call, a call that no call on the same session
\* has overlapped finds the session's checkpoint as get_state read it until
\* it invokes the graph, and from then on the checkpoint is the state the
\* call itself has reached; when it returns, the result is that state, its
\* messages being the history found followed by the turn's two entries.
C7_SessionsIsolated ==
    [][\A t \in Threads :
         run'[t].alone =>
            /\ run'[t].pc = "invoke" =>
                  SessionCheckpoint(stores', run'[t]) = run'[t].existing
            /\ run'[t].pc \in Nodes =>
                  SessionCheckpoint(stores', run'[t]) = run'[t].state
            /\ Completes(t) =>
                  /\ SessionCheckpoint(stores', run'[t]) = run'[t].state
                  /\ run'[t].result[1].state = run'[t].state[1]
                  /\ run'[t].state[1].messages =
                        (IF FoundHistory(run[t])
                         THEN run[t].existing[1].messages ELSE <<>>)
                        \o TurnEntries(run'[t])]_vars

\* two calls on different sessions of one saver, interleaved: one has
\* returned while the other is between two stages
C7_Witness ==
    \E t, u \in Threads :
        /\ run[t].pc = "done"
        /\ run[u].pc = "summarization"
        /\ run[t].graph = run[u].graph
        /\ run[t].thread_id # run[u].thread_id
        /\ run[t].alone /\ run[u].alone
        /\ run[t].trace = StageOrder

\* thread t's call raises in this step
Aborts(t) == run[t].pc \in Nodes /\ run'[t].pc = "failed"

\* C12 as stated: a call that aborts in a stage, and that no call on the same
\* session has overlapped, leaves the session's stored state as get_state
\* found it before the run.
C12_AbortLeavesStoreUntouched ==
    [][\A t \in Threads :
         (Aborts(t) /\ run'[t].alone) =>
            SessionCheckpoint(stores', run'[t]) = run'[t].existing]_vars

\* thread t's call runs node in this step, and the node returns
Runs(t, node) == run[t].pc = node /\ run'[t].pc \notin {node, "failed"}

\* the step leaves every field of t's state but those of fields as it was
ChangesOnly(t, fields) ==
    \A f \in DOMAIN run[t].state[1] \ fields :
        run'[t].state[1][f] = run[t].state[1][f]

\* C13: Plan changes no field but plan and sub_questions, Retrieve none but
\* context, Summarize none but draft_answer, so all three leave messages and
\* question as they were; Verify adds to messages and changes no field but
\* answer and messages.
C13_OnlyVerifyChangesMessages ==
    [][\A t \in Threads :
         /\ Runs(t, "planner") => ChangesOnly(t, {"plan", "sub_questions"})
         /\ Runs(t, "retrieval") => ChangesOnly(t, {"context"})
         /\ Runs(t, "summarization") => ChangesOnly(t, {"draft_answer"})
         /\ Runs(t, "verification") =>
               /\ ChangesOnly(t, {"answer", "messages"})
               /\ run'[t].state[1].messages # run[t].state[1].messages]_vars

\* a call on a session with a history is about to run Verify: the three
\* stages before it have set their fields, and messages is as the call began
C13_Witness ==
    \E t \in Threads :
        /\ run[t].pc = "verification"
        /\ FoundHistory(run[t])
        /\ run[t].state[1].plan # None
        /\ run[t].state[1].context # None
        /\ run[t].state[1].draft_answer # None
        /\ run[t].state[1].messages
             = InitialMessages(run[t].existing, run[t].question)

\* the fields of fields, which only stages yet to run set, are null
NotYetSet(t, fields) == \A f \in fields : run[t].state[1][f] = None

\* C14: a call that is about to run its first stage, on a fresh session or on
\* a resumed one, has plan, sub_questions, context, draft_answer and answer
\* null, its own question, and as messages the history found followed by the
\* question; and before each later stage the fields that only later stages
\* set are still null and question is still the call's own.
C14_RunStartsClean ==
    \A t \in Threads :
        /\ run[t].pc \in Nodes => run[t].state[1].question = run[t].question
        /\ run[t].pc = "planner" =>
              /\ NotYetSet(t, {"plan", "sub_questions", "context",
                               "draft_answer", "answer"})
              /\ run[t].state[1].messages =
                    (IF FoundHistory(run[t])
                     THEN run[t].existing[1].messages ELSE <<>>)
                    \o <<Msg("user", run[t].question)>>
        /\ run[t].pc = "retrieval" =>
              NotYetSet(t, {"context", "draft_answer", "answer"})
        /\ run[t].pc = "summarization" => NotYetSet(t, {"draft_answer", "answer"})
        /\ run[t].pc = "verification" => NotYetSet(t, {"answer"})

\* a call with another question is about to run Plan on a session whose
\* stored state holds the plan, the context, the draft and the answer of a
\* completed turn
C14_Witness ==
    \E t \in Threads :
        /\ run[t].pc = "planner"
        /\ run[t].existing # None
        /\ run[t].existing[1].plan # None
        /\ run[t].existing[1].context # None
        /\ run[t].existing[1].draft_answer # None
        /\ run[t].existing[1].answer # None
        /\ run[t].existing[1].question # run[t].question
        /\ run[t].state[1].answer = None

\* the last entry of messages is the assistant entry of answer, and the one
\* before it the user entry of question
EndsWithTurn(messages, question, answer) ==
    /\ Len(messages) >= 2
    /\ messages[Len(messages)].role = "assistant"
    /\ messages[Len(messages)].content = answer
    /\ messages[Len(messages) - 1].role = "user"
    /\ messages[Len(messages) - 1].content = question

\* C15: when a call returns, the messages returned and the messages stored
\* for its session both end with the user entry of the call's question
\* followed by the assistant entry whose content is the answer returned.
C15_HistoryEndsWithTurn ==
    [][\A t \in Threads :
         Completes(t) =>
            LET returned == run'[t].result[1].state
            IN  /\ returned.answer # None
                /\ EndsWithTurn(returned.messages, run[t].question,
                                returned.answer[1])
                /\ EndsWithTurn(StoredMessages(stores', run'[t]), run[t].question,
                                returned.answer[1])]_vars

\* a call has returned on a session whose history ended with the question
\* of a call that had aborted
C15_Witness ==
    \E t \in Threads :
        /\ run[t].pc = "done"
        /\ FoundHistory(run[t])
        /\ run[t].existing[1].messages[Len(run[t].existing[1].messages)].role = "user"
        /\ EndsWithTurn(run[t].result[1].state.messages, run[t].question,
                        run[t].result[1].state.answer[1])

\* C19 as stated: at most one checkpointer instance is ever created, every
\* call that has a graph uses that instance, and it is the one later calls
\* get from the cache, also when the first calls overlap.
C19_OneCheckpointer ==
    /\ Len(stores) <= 1
    /\ \A t \in Threads :
          run[t].pc \in {"get_state", "invoke", "done", "failed"} \cup Nodes =>
             /\ checkpointer = Some(run[t].graph)
             /\ graph_cache # None => graph_cache = Some(run[t].graph)

\* messages holds the two entries of the turn of call r, one after the other
HoldsTurn(messages, r) ==
    \E k \in 1..(Len(messages) - 1) :
        <<messages[k], messages[k + 1]>> = TurnEntries(r)

\* C20 as stated: once two calls given the same session identifier, on one
\* checkpointer, that overlapped have both returned, the session's stored
\* messages hold the question and the answer of each of them.
C20_NoTurnLost ==
    \A t, u \in Threads :
        (/\ t # u
         /\ run[t].pc = "done" /\ run[u].pc = "done"
         /\ Truthy(run[t].session_id)
         /\ run[t].session_id = run[u].session_id
         /\ run[t].graph = run[u].graph
         /\ ~run[t].alone /\ ~run[u].alone) =>
            /\ HoldsTurn(StoredMessages(stores, run[t]), run[t])
            /\ HoldsTurn(StoredMessages(stores, run[t]), run[u])
            /\ Len(StoredMessages(stores, run[t])) >= 4

(***************************************************************************)
(* Properties of the plan parser                                           *)
(***************************************************************************)
\* the line the loop is about to take, trimmed
CurrentLine == Strip(parse.lines[parse.i], Whitespace)

\* the loop takes a line in this step
TakesLine == parse.pc = "loop" /\ parse.i <= Len(parse.lines) /\ parse'.i = parse.i + 1

ModeChanges ==
    \/ parse'.ps.in_plan # parse.ps.in_plan
    \/ parse'.ps.in_subq # parse.ps.in_subq

\* C8 as stated: the mode changes only on a line that, trimmed, is equal to
\* "plan:" or to "sub_questions:".
C8_SwitchOnlyOnExactHeader ==
    [][(TakesLine /\ ModeChanges) => CurrentLine \in {<<PLAN>>, <<SUBQ>>}]_vars

\* C8, amended: the mode changes only on a line that, trimmed, starts with
\* "plan:" or "sub_questions:"; every such line, whatever follows the marker
\* on it, sets the mode of its marker and clears the other, and nothing of it
\* is collected; every other line leaves the mode as it is.
C8_SwitchOnHeaderPrefix ==
    [][TakesLine =>
         /\ StartsWith(CurrentLine, PLAN) =>
               /\ parse'.ps.in_plan /\ ~parse'.ps.in_subq
               /\ parse'.ps.plan_lines = parse.ps.plan_lines
               /\ parse'.ps.sub_questions = parse.ps.sub_questions
         /\ StartsWith(CurrentLine, SUBQ) =>
               /\ parse'.ps.in_subq /\ ~parse'.ps.in_plan
               /\ parse'.ps.plan_lines = parse.ps.plan_lines
               /\ parse'.ps.sub_questions = parse.ps.sub_questions
         /\ ~(StartsWith(CurrentLine, PLAN) \/ StartsWith(CurrentLine, SUBQ)) =>
               ~ModeChanges]_vars

\* the line "plan:x" has been taken and has opened plan mode
C8_Witness ==
    /\ parse.pc = "loop"
    /\ parse.i = 2
    /\ Strip(parse.lines[1], Whitespace) = <<PLAN, "x">>
    /\ parse.ps.in_plan

\* a line of the content is taken as a header
HasHeader(content) ==
    \E k \in 1..Len(Split(content)) :
        LET line == Strip(Split(content)[k], Whitespace)
        IN  StartsWith(line, PLAN) \/ StartsWith(line, SUBQ)

\* C9: the parser ends with a result for every content; a field is None
\* exactly when no line was collected for it, and is never the empty string
\* or the empty list; the empty content and every content without a header
\* give (None, None).
C9_NullWhenNothingCollected ==
    /\ parse.pc \in {"start", "loop"} => ENABLED ParserNext
    /\ parse.pc = "done" =>
          LET result == parse.result[1] IN
          /\ parse.result # None
          /\ result = parse_plan_and_subquestions(parse.content)
          /\ result.plan = None <=> parse.ps.plan_lines = <<>>
          /\ result.sub_questions = None <=> parse.ps.sub_questions = <<>>
          /\ result.plan # Some(<<>>)
          /\ result.sub_questions # Some(<<>>)
          /\ parse.content = <<>> => result = [plan |-> None, sub_questions |-> None]
          /\ ~HasHeader(parse.content) =>
                result = [plan |-> None, sub_questions |-> None]

\* a content with both headers whose plan section collected nothing
C9_Witness ==
    /\ parse.pc = "done"
    /\ parse.content = <<PLAN, NL, SUBQ, NL, DASH>>
    /\ parse.result[1].plan = None
    /\ parse.result[1].sub_questions = Some(<< <<>> >>)

\* the line rule of the claim: of a sub-question line only the leading
\* hyphens and blanks and the surrounding quotes go
RuleSubqText(line) == Strip(LStrip(line, {DASH, SP}), {QUOTE})

RuleLine(ps, raw) ==
    LET line == Strip(raw, Whitespace) IN
    IF StartsWith(line, PLAN)
    THEN [ps EXCEPT !.in_plan = TRUE, !.in_subq = FALSE]
    ELSE IF StartsWith(line, SUBQ)
    THEN [ps EXCEPT !.in_plan = FALSE, !.in_subq = TRUE]
    ELSE IF ps.in_plan /\ line # <<>> /\ line[1] \in Digits
    THEN [ps EXCEPT !.plan_lines = Append(@, line)]
    ELSE IF ps.in_subq /\ StartsWith(line, DASH)
    THEN [ps EXCEPT !.sub_questions = Append(@, RuleSubqText(line))]
    ELSE ps

RECURSIVE RuleLoop(_, _)
RuleLoop(ps, lines) ==
    IF lines = <<>> THEN ps ELSE RuleLoop(RuleLine(ps, Head(lines)), Tail(lines))

\* C10 as stated: the result is the line rule's: the plan lines joined by
\* newlines, and the sub-question lines less their leading "- " and their
\* surrounding quotes, a trailing hyphen being kept.
C10_ResultIsLineRule ==
    parse.pc = "done" /\ parse.content # <<>> =>
        LET rule == RuleLoop(ParseLoopInit, Split(parse.content)) IN
        /\ parse.ps.plan_lines = rule.plan_lines
        /\ parse.ps.sub_questions = rule.sub_questions

(***************************************************************************)
(* Properties of planner_node and retrieval_node                           *)
(***************************************************************************)
\* retrieval_node has run: its query and the response it got are recorded
Retrieved == stage.pc = NextNode("retrieval")

\* the part of a query that follows the sub-question header and its newline
SubqSection(query) ==
    LET i == CHOOSE k \in 1..Len(query) : query[k] = SUBQ_HEAD
    IN  SubSeq(query, i + 2, Len(query))

\* C11: in the query of Retrieve, the sub-question section has one line per
\* sub-question, in the list's order, each "- " followed by the sub-question,
\* when the list is present, and is the marker "None" when sub_questions is
\* null; in both cases Retrieve is able to run and leaves a context.
C11_SubQuestionsRendered ==
    /\ stage.pc = "retrieval" => ENABLED StageRetrieval
    /\ Retrieved =>
          LET sub_questions == stage.state[1].sub_questions
              section == SubqSection(stage.user_content)
              lines == Split(section)
          IN  /\ sub_questions = None => section = <<NONE>>
              /\ sub_questions # None =>
                    /\ Len(lines) = Len(sub_questions[1])
                    /\ \A k \in 1..Len(lines) :
                          lines[k] = <<DASH, SP>> \o sub_questions[1][k]
              /\ stage.state[1].context # None

\* Retrieve has run on a state without plan and sub-questions
C11_Witness ==
    /\ Retrieved
    /\ stage.state[1].sub_questions = None
    /\ stage.state[1].plan = None
    /\ SubqSection(stage.user_content) = <<NONE>>

\* the positions of the tool results in a response
ToolPositions(result) == {k \in 1..Len(result) : result[k].type = "tool"}

\* C16: after Retrieve, context is never null; it is the content of the tool
\* result at the highest position of the response, whatever messages follow
\* it, and the empty text when the response holds no tool result.
C16_ContextIsLastToolResult ==
    Retrieved =>
        LET result == stage.result
            context == stage.state[1].context
        IN  /\ context # None
            /\ ToolPositions(result) = {} => context = Some(<<>>)
            /\ ToolPositions(result) # {} =>
                  LET last == CHOOSE k \in ToolPositions(result) :
                                  \A j \in ToolPositions(result) : j <= k
                  IN  context = Some(result[last].content)

\* Retrieve has run on a response with two tool results followed by two
\* messages of the agent
C16_Witness ==
    /\ Retrieved
    /\ stage.result = <<ToolMessage(<<"c2">>), ToolMessage(<<"c1">>),
                        AIMessage(<<"x">>), AIMessage(<<>>)>>
    /\ stage.state[1].context = Some(<<"c1">>)

\* the positions of the assistant entries of a history
AssistantPositions(history) ==
    {k \in 1..Len(history) : history[k].role = "assistant"}

\* the most recent assistant entry of a history that has one
LastAssistant(history) ==
    history[CHOOSE k \in AssistantPositions(history) :
                \A j \in AssistantPositions(history) : j <= k]

\* the query carries a continuity hint; the excerpt the hint holds
HasHint(query) == \E k \in 1..Len(query) : query[k] = NOTE_OPEN

Excerpt(query) ==
    LET i == CHOOSE k \in 1..Len(query) : query[k] = NOTE_OPEN
        j == CHOOSE k \in 1..Len(query) : query[k] = NOTE_CLOSE
    IN  SubSeq(query, i + 1, j - 1)

\* the first n characters of a text, the whole of it when it has fewer
Prefix(text, n) == [k \in 1..(IF Len(text) < n THEN Len(text) ELSE n) |-> text[k]]

\* C17 as stated: the query of Retrieve carries a hint exactly when the
\* history has two or more entries and some assistant entry of it is not
\* empty; the hint holds the first 200 characters of the most recent
\* assistant entry.
C17_HintWhenSomeAnswer ==
    Retrieved =>
        LET history == stage.state[1].messages
            query == stage.user_content
        IN  /\ HasHint(query) <=>
                  /\ Len(history) >= 2
                  /\ \E k \in AssistantPositions(history) : history[k].content # <<>>
            /\ HasHint(query) =>
                  Excerpt(query) = Prefix(LastAssistant(history).content, 200)

\* C17, amended: the query of Retrieve carries a hint exactly when the
\* history has two or more entries, has an assistant entry, and the most
\* recent assistant entry is not empty; the hint holds the first 200
\* characters of that entry, all of it when it is shorter; a history of one
\* entry gives no hint.
C17_HintWhenLastAnswer ==
    Retrieved =>
        LET history == stage.state[1].messages
            query == stage.user_content
        IN  /\ HasHint(query) <=>
                  /\ Len(history) >= 2
                  /\ AssistantPositions(history) # {}
                  /\ LastAssistant(history).content # <<>>
            /\ HasHint(query) =>
                  /\ Excerpt(query) = Prefix(LastAssistant(history).content, 200)
                  /\ Len(Excerpt(query)) <= 200
            /\ Len(history) = 1 => ~HasHint(query)

\* Retrieve has run on a history whose most recent answer has more than 200
\* characters, after an older answer that is empty: the hint holds 200
C17_Witness ==
    /\ Retrieved
    /\ HasHint(stage.user_content)
    /\ Len(LastAssistant(stage.state[1].messages).content) > 200
    /\ Len(Excerpt(stage.user_content)) = 200
    /\ \E k \in AssistantPositions(stage.state[1].messages) :
          stage.state[1].messages[k].content = <<>>

\* planner_node runs and returns in this step
Plans == stage.pc = "planner" /\ stage'.pc = NextNode("planner")

\* the message type a role is sent as
TypeOf(role) == IF role = "user" THEN "human" ELSE "ai"

\* C18: the planner is sent the last 6 entries of messages, all of them when
\* there are fewer, in their order, each with its content and as the type of
\* its role, and after them the question as a user message; Plan leaves
\* messages, the entries before the window included, as it was.
C18_PlannerGetsWindow ==
    [][Plans =>
         LET messages == stage.state[1].messages
             n == Len(messages)
             w == IF n < 6 THEN n ELSE 6
             sent == stage'.agent_messages
         IN  /\ Len(sent) = w + 1
             /\ \A k \in 1..w :
                   /\ sent[k].content = messages[n - w + k].content
                   /\ sent[k].type = TypeOf(messages[n - w + k].role)
             /\ sent[w + 1] = HumanMessage(stage.state[1].question)
             /\ stage'.state[1].messages = messages]_vars

\* Plan has run on a history of more than 6 entries: the oldest was not
\* sent and is still the first of messages
C18_Witness ==
    /\ stage.pc = NextNode("planner")
    /\ Len(stage.state[1].messages) > 6
    /\ Len(stage.agent_messages) = 7
    /\ stage.agent_messages[1].content = stage.state[1].messages[2].content
    /\ stage.agent_messages[1].type = TypeOf(stage.state[1].messages[2].role)
    /\ stage.state[1].messages[1].role = "user"
    /\ stage.state[1].messages[2].role = "assistant"


\* planner_node has run: the messages it sent are recorded
Planned == stage.pc \in {NextNode("planner"), NextNode("retrieval")}

\* the positions at which the planner was sent the question as a user message
QuestionPositions(sent, question) ==
    {k \in 1..Len(sent) : sent[k] = HumanMessage(question)}

\* C21 as stated: when no earlier turn of the history asked the same
\* question, the messages sent to the planner hold the question of the turn
\* exactly once, as the last of them.
C21_QuestionSentOnce ==
    Planned =>
        LET messages == stage.state[1].messages
            question == stage.state[1].question
            sent == stage.agent_messages
        IN  (\A k \in 1..(Len(messages) - 1) :
                 messages[k] # Msg("user", question)) =>
               QuestionPositions(sent, question) = {Len(sent)}

====
